---- MODULE Spec2Model ----
(***************************************************************************)
(* A model of the pmux/rmux terminal multiplexer (src/src/main.rs): the    *)
(* startup and teardown in main, the supervisor loop in run (render, poll, *)
(* reap), the input state machine handle_key and the model operations      *)
(* create_window, split_active, kill_active_pane and reap_children.        *)
(* A second part follows the supervisor thread and the panes' reader       *)
(* threads step by step, with the Mutex around each pane's Screen.         *)
(*                                                                         *)
(* Indices (active_idx, active_pane) are 0-based as in the source; TLA+    *)
(* sequences are 1-based, so windows[active_idx + 1] is the source's       *)
(* app.windows[app.active_idx].                                            *)
(***************************************************************************)
EXTENDS Integers, Sequences, FiniteSets, TLC

(***************************************************************************)
(* Bounds of the model.                                                    *)
(***************************************************************************)
\* Children the PTY host will spawn; past it openpty/spawn is refused.
MaxChildren == 3
\* The same, where the host terminal is resized.
MaxGeomChildren == 2
\* Host-resize events that may wait unread in the event queue.
MaxPending == 1
\* Panes, each with its reader thread, where the threads are followed step
\* by step.
MaxThreadPanes == 2
\* Granularity of the passing of time, in milliseconds.
TickMs == 500

(***************************************************************************)
(* Program constants.                                                      *)
(***************************************************************************)
InitRows == 30
InitCols == 120
escape_time_ms == 500
ResizeDebounceMs == 50

\* Host terminal sizes <<rows, cols>> the environment moves between.
HostSizes == { <<8, 20>>, <<11, 31>> }
\* The host terminal's size where the host is never resized.
FixedHost == <<8, 20>>

VARIABLES
    pc,            \* position of the main thread in main/run
    result,        \* what run/main returns: "none", "ok", "err"
    env_active,    \* value of RMUX_ACTIVE
    raw_mode,      \* host terminal in raw mode
    alt_screen,    \* host terminal in the alternate screen
    cursor_shown,  \* terminal.show_cursor() has been called
    refused,       \* the nested-session refusal was written
    windows,       \* app.windows
    active_idx,    \* app.active_idx
    mode,          \* app.mode
    quit,          \* run's quit flag
    since_resize,  \* last_resize.elapsed(), capped above the debounce
    next_child,    \* id of the next child the PTY host spawns
    exited,        \* children for which try_wait reports an exit status
    killed,        \* children on which kill() was called
                   \* (both: of the children whose Child the program holds or
                   \* has dropped in this iteration)
    host,          \* the host terminal's size now
    pending,       \* unread Event::Resize events, oldest first
    ev,            \* the event handled in this iteration (history)
    pre,           \* the model before that event was handled (history)
    wrote,         \* bytes written to PTY masters in this iteration
    frame,         \* what the last completed render laid out (history)
    sup,           \* where the supervisor thread is, and at which pane
    term_lock,     \* the holder of each pane's Screen mutex
    reader_at,     \* where each pane's reader thread is
    master_end,    \* what reading each pane's master reports
    gone           \* panes reap_children has removed

vars == << pc, result, env_active, raw_mode, alt_screen, cursor_shown, refused,
           windows, active_idx, mode, quit, since_resize, next_child, exited,
           killed, host, pending, ev, pre, wrote, frame, sup, term_lock, reader_at, master_end, gone >>

(***************************************************************************)
(* Small helpers for Rust's integer and Vec operations.                    *)
(***************************************************************************)
Max(a, b) == IF a >= b THEN a ELSE b
Min(a, b) == IF a <= b THEN a ELSE b
saturating_sub(a, b) == IF a >= b THEN a - b ELSE 0

\* Vec::remove(i), i 0-based.
Remove(s, i) == [k \in 1..(Len(s) - 1) |-> IF k <= i THEN s[k] ELSE s[k + 1]]

(***************************************************************************)
(* Key events.  A key is its KeyCode (code; ch holds the character of a    *)
(* KeyCode::Char) and its KeyModifiers (mods).                             *)
(***************************************************************************)
Ch(c) == [code |-> "Char", ch |-> c, mods |-> {}]
Ctrl(c) == [code |-> "Char", ch |-> c, mods |-> {"CONTROL"}]
CtrlShift(c) == [code |-> "Char", ch |-> c, mods |-> {"CONTROL", "SHIFT"}]
Named(k) == [code |-> k, ch |-> "", mods |-> {}]

\* "^B" stands for the raw character U+0002.
PlainChars == { "q", "c", "n", "p", "%", "\"", "x", ":", "a",
                "0", "1", "2", "9", "^B" }
NamedCodes == { "Enter", "Esc", "Backspace", "Left", "F1" }
Keys == { Ch(c) : c \in PlainChars }
          \cup { Ctrl("q"), Ctrl("b"), CtrlShift("b"), Ctrl("c") }
          \cup { Named(k) : k \in NamedCodes }
\* The keys of the geometry specification: the prefix and the commands that
\* change which panes are laid out.
GeomKeys == { Ctrl("b"), Ch("%"), Ch("\""), Ch("c"), Ch("n") }

\* char::is_ascii_digit and char::to_digit(10)
is_ascii_digit(c) == c \in { "0", "1", "2", "3", "4", "5", "6", "7", "8", "9" }
to_digit(c) ==
    CASE c = "0" -> 0 [] c = "1" -> 1 [] c = "2" -> 2 [] c = "3" -> 3
      [] c = "4" -> 4 [] c = "5" -> 5 [] c = "6" -> 6 [] c = "7" -> 7
      [] c = "8" -> 8 [] c = "9" -> 9

\* The UTF-8 bytes of a character, as write!(master, "{}", c) emits them.
Utf8(c) ==
    CASE c = "^B" -> <<2>>   [] c = " " -> <<32>>  [] c = "\"" -> <<34>>
      [] c = "%" -> <<37>>   [] c = "-" -> <<45>>  [] c = ":" -> <<58>>
      [] c = "a" -> <<97>>   [] c = "b" -> <<98>>  [] c = "c" -> <<99>>
      [] c = "d" -> <<100>>  [] c = "h" -> <<104>> [] c = "i" -> <<105>>
      [] c = "l" -> <<108>>  [] c = "n" -> <<110>> [] c = "o" -> <<111>>
      [] c = "p" -> <<112>>  [] c = "q" -> <<113>> [] c = "s" -> <<115>>
      [] c = "t" -> <<116>>  [] c = "w" -> <<119>> [] c = "x" -> <<120>>
      [] is_ascii_digit(c) -> <<48 + to_digit(c)>>

PrefixByte == 2

(***************************************************************************)
(* Mode, LayoutKind, Pane, Window.                                         *)
(***************************************************************************)
Passthrough == [tag |-> "Passthrough"]
\* armed_for is armed_at.elapsed(), capped at escape_time_ms.
Prefix(age) == [tag |-> "Prefix", armed_for |-> age]
CommandPrompt(s) == [tag |-> "CommandPrompt", input |-> s]

\* A pane as create_window and split_active build it: PTY and Screen of the
\* placeholder size, last_rows/last_cols the same.
NewPane(child) ==
    [child |-> child,
     last_rows |-> InitRows, last_cols |-> InitCols,
     pty_rows |-> InitRows, pty_cols |-> InitCols,
     scr_rows |-> InitRows, scr_cols |-> InitCols]

NewWindow(child) ==
    [panes |-> <<NewPane(child)>>, active_pane |-> 0, layout |-> "Horizontal"]

(***************************************************************************)
(* Geometry of the render: the body is the area without the status row,    *)
(* the panes share it in slices of 100/n percent, a pane's inner rectangle *)
(* is its slice without the border.                                        *)
(***************************************************************************)
BodyRows(area) == saturating_sub(area[1], 1)
BodyCols(area) == area[2]

\* Slice i (0-based) of n slices of Percentage(100 / n) each; the last slice
\* takes what the rounding leaves.
Slice(total, n, i) ==
    LET each == (total * (100 \div n)) \div 100
    IN  IF i < n - 1 THEN each ELSE total - each * (n - 1)

OuterRows(area, layout, n, i) ==
    IF layout = "Vertical" THEN Slice(BodyRows(area), n, i) ELSE BodyRows(area)
OuterCols(area, layout, n, i) ==
    IF layout = "Horizontal" THEN Slice(BodyCols(area), n, i) ELSE BodyCols(area)

\* Block::inner with Borders::ALL
InnerRows(area, layout, n, i) == saturating_sub(OuterRows(area, layout, n, i), 2)
InnerCols(area, layout, n, i) == saturating_sub(OuterCols(area, layout, n, i), 2)

target_rows(area, layout, n, i) == Max(InnerRows(area, layout, n, i), 1)
target_cols(area, layout, n, i) == Max(InnerCols(area, layout, n, i), 1)

\* SnapPane resizing the PTY and the Screen without recording the size.
SnapPane_forget(pane, tr, tc) ==
    IF pane.last_rows # tr \/ pane.last_cols # tc
    THEN [pane EXCEPT !.pty_rows = tr, !.pty_cols = tc,
                      !.scr_rows = tr, !.scr_cols = tc]
    ELSE pane

\* The render's snap-to-geometry step for one pane.
SnapPane(pane, tr, tc) ==
    IF pane.last_rows # tr \/ pane.last_cols # tc
    THEN [pane EXCEPT !.pty_rows = tr, !.pty_cols = tc,
                      !.scr_rows = tr, !.scr_cols = tc,
                      !.last_rows = tr, !.last_cols = tc]
    ELSE pane

\* terminal.draw's closure, as far as it changes the model: every pane of
\* the active window is snapped to its inner rectangle.
RenderWindow(win, area) ==
    LET pane_count == Max(Len(win.panes), 1)
    IN  [win EXCEPT !.panes =
            [i \in 1..Len(win.panes) |->
                SnapPane(win.panes[i],
                         target_rows(area, win.layout, pane_count, i - 1),
                         target_cols(area, win.layout, pane_count, i - 1))]]

\* The Event::Resize handler's effect on the active pane of a window.
ResizeActivePane(win, rows, cols) ==
    [win EXCEPT !.panes[win.active_pane + 1] =
        [@ EXCEPT !.pty_rows = rows, !.pty_cols = cols,
                  !.scr_rows = rows, !.scr_cols = cols]]

(***************************************************************************)
(* The model operations.  Each takes and returns a record st of what a     *)
(* handler reads and changes: the AppState fields windows, active_idx and  *)
(* mode; the PTY host's next_child and killed; the bytes wrote to PTY      *)
(* masters; and ret, the handler's return: "ok" (Ok(()) / Ok(false)),      *)
(* "quit" (Ok(true)), "err" (Err, propagated by ?), "panic" (an index out  *)
(* of bounds).                                                             *)
(* outcome is what the PTY host answers to this operation's openpty,       *)
(* spawn_command and try_clone_reader.                                     *)
(***************************************************************************)
\* "refused": openpty or spawn_command fails; "clone_reader": they succeed
\* and try_clone_reader fails.
SpawnOutcomes == { "ok", "refused", "clone_reader" }

InBounds(st) == st.active_idx < Len(st.windows)
ActiveWin(st) == st.windows[st.active_idx + 1]

create_window(st, outcome) ==
    CASE outcome = "refused" -> [st EXCEPT !.ret = "err"]
      [] outcome = "clone_reader" ->
            \* the child was spawned; its pane is never built
            [st EXCEPT !.ret = "err", !.next_child = @ + 1]
      [] OTHER ->
            [st EXCEPT !.windows = Append(@, NewWindow(st.next_child)),
                       !.active_idx = (Len(st.windows) + 1) - 1,
                       !.next_child = @ + 1]

\* split_active leaving the focus on the pane that had it.
split_active_keepfocus(st, kind, outcome) ==
    CASE outcome = "refused" -> [st EXCEPT !.ret = "err"]
      [] outcome = "clone_reader" ->
            [st EXCEPT !.ret = "err", !.next_child = @ + 1]
      [] ~InBounds(st) ->
            [st EXCEPT !.ret = "panic", !.next_child = @ + 1]
      [] OTHER ->
            LET win == ActiveWin(st)
                panes == Append(win.panes, NewPane(st.next_child))
            IN  [st EXCEPT !.windows[st.active_idx + 1] =
                               [win EXCEPT !.panes = panes,
                                           !.layout = kind],
                           !.next_child = @ + 1]

\* split_active leaving the window's layout as it was.
split_active_keeplayout(st, kind, outcome) ==
    CASE outcome = "refused" -> [st EXCEPT !.ret = "err"]
      [] outcome = "clone_reader" ->
            [st EXCEPT !.ret = "err", !.next_child = @ + 1]
      [] ~InBounds(st) ->
            [st EXCEPT !.ret = "panic", !.next_child = @ + 1]
      [] OTHER ->
            LET win == ActiveWin(st)
                panes == Append(win.panes, NewPane(st.next_child))
            IN  [st EXCEPT !.windows[st.active_idx + 1] =
                               [win EXCEPT !.panes = panes,
                                           !.active_pane = Len(panes) - 1],
                           !.next_child = @ + 1]

split_active(st, kind, outcome) ==
    CASE outcome = "refused" -> [st EXCEPT !.ret = "err"]
      [] outcome = "clone_reader" ->
            [st EXCEPT !.ret = "err", !.next_child = @ + 1]
      [] ~InBounds(st) ->
            [st EXCEPT !.ret = "panic", !.next_child = @ + 1]
      [] OTHER ->
            LET win == ActiveWin(st)
                panes == Append(win.panes, NewPane(st.next_child))
            IN  [st EXCEPT !.windows[st.active_idx + 1] =
                               [win EXCEPT !.panes = panes,
                                           !.active_pane = Len(panes) - 1,
                                           !.layout = kind],
                           !.next_child = @ + 1]

\* kill_active_pane returning early only when the window has no pane.
kill_active_pane_lastpane(st) ==
    IF ~InBounds(st) THEN [st EXCEPT !.ret = "panic"]
    ELSE LET win == ActiveWin(st)
             idx == win.active_pane
         IN  IF Len(win.panes) < 1 THEN st
             ELSE IF idx >= Len(win.panes) THEN [st EXCEPT !.ret = "panic"]
             ELSE LET panes == Remove(win.panes, idx)
                  IN  [st EXCEPT
                         !.windows[st.active_idx + 1] =
                             [win EXCEPT
                                !.panes = panes,
                                !.active_pane =
                                    IF win.active_pane >= Len(panes)
                                    THEN saturating_sub(Len(panes), 1)
                                    ELSE win.active_pane],
                         !.killed = @ \cup { win.panes[idx + 1].child }]

\* kill_active_pane without the clamp of active_pane.
kill_active_pane_noclamp(st) ==
    IF ~InBounds(st) THEN [st EXCEPT !.ret = "panic"]
    ELSE LET win == ActiveWin(st)
             idx == win.active_pane
         IN  IF Len(win.panes) <= 1 THEN st
             ELSE [st EXCEPT
                     !.windows[st.active_idx + 1] =
                         [win EXCEPT !.panes = Remove(win.panes, idx)],
                     !.killed = @ \cup { win.panes[idx + 1].child }]

kill_active_pane(st) ==
    IF ~InBounds(st) THEN [st EXCEPT !.ret = "panic"]
    ELSE LET win == ActiveWin(st)
             idx == win.active_pane
         IN  IF Len(win.panes) <= 1 THEN st
             ELSE IF idx >= Len(win.panes) THEN [st EXCEPT !.ret = "panic"]
             ELSE LET panes == Remove(win.panes, idx)
                  IN  [st EXCEPT
                         !.windows[st.active_idx + 1] =
                             [win EXCEPT
                                !.panes = panes,
                                !.active_pane =
                                    IF win.active_pane >= Len(panes)
                                    THEN saturating_sub(Len(panes), 1)
                                    ELSE win.active_pane],
                         !.killed = @ \cup { win.panes[idx + 1].child }]

\* The bytes forward_key_to_active writes for a key; <<>> when it drops it.
KeyBytes(key) ==
    CASE key.code = "Char" /\ "CONTROL" \notin key.mods -> Utf8(key.ch)
      [] key.code = "Enter" -> <<13>>
      [] key.code = "Tab" -> <<9>>
      [] key.code = "Backspace" -> <<8>>
      [] key.code = "Esc" -> <<27>>
      [] key.code = "Left" -> <<27, 91, 68>>
      [] key.code = "Right" -> <<27, 91, 67>>
      [] key.code = "Up" -> <<27, 91, 65>>
      [] key.code = "Down" -> <<27, 91, 66>>
      [] OTHER -> <<>>

\* forward_key_to_active writing to the window's first pane.
forward_key_to_first(st, key) ==
    IF ~InBounds(st) THEN [st EXCEPT !.ret = "panic"]
    ELSE LET win == ActiveWin(st)
         IN  IF win.active_pane >= Len(win.panes)
             THEN [st EXCEPT !.ret = "panic"]
             ELSE IF KeyBytes(key) = <<>> THEN st
             ELSE [st EXCEPT !.wrote =
                      Append(@, [child |-> win.panes[1].child,
                                 bytes |-> KeyBytes(key)])]

forward_key_to_active(st, key) ==
    IF ~InBounds(st) THEN [st EXCEPT !.ret = "panic"]
    ELSE LET win == ActiveWin(st)
         IN  IF win.active_pane >= Len(win.panes)
             THEN [st EXCEPT !.ret = "panic"]
             ELSE IF KeyBytes(key) = <<>> THEN st
             ELSE [st EXCEPT !.wrote =
                      Append(@, [child |-> win.panes[win.active_pane + 1].child,
                                 bytes |-> KeyBytes(key)])]

(***************************************************************************)
(* The command prompt's parser.  The prompt buffer is a sequence of        *)
(* characters.                                                             *)
(***************************************************************************)
RECURSIVE Tokens(_, _, _)
Tokens(s, cur, acc) ==
    IF s = <<>> THEN (IF cur = <<>> THEN acc ELSE Append(acc, cur))
    ELSE IF Head(s) = " "
         THEN Tokens(Tail(s), <<>>, IF cur = <<>> THEN acc ELSE Append(acc, cur))
         ELSE Tokens(Tail(s), Append(cur, Head(s)), acc)

\* str::split_whitespace
split_whitespace(s) == Tokens(s, <<>>, <<>>)

RECURSIVE DigitsVal(_, _)
DigitsVal(t, acc) ==
    IF t = <<>> THEN acc
    ELSE IF is_ascii_digit(Head(t))
         THEN DigitsVal(Tail(t), acc * 10 + to_digit(Head(t)))
         ELSE -1

\* str::parse::<usize>; -1 stands for Err.
parse_usize(tok) ==
    LET body == IF tok # <<>> /\ Head(tok) = "+" THEN Tail(tok) ELSE tok
    IN  IF body = <<>> THEN -1 ELSE DigitsVal(body, 0)

V_new_window == << "n", "e", "w", "-", "w", "i", "n", "d", "o", "w" >>
V_split_window == << "s", "p", "l", "i", "t", "-", "w", "i", "n", "d", "o", "w" >>
V_kill_pane == << "k", "i", "l", "l", "-", "p", "a", "n", "e" >>
V_next_window == << "n", "e", "x", "t", "-", "w", "i", "n", "d", "o", "w" >>
V_previous_window ==
    << "p", "r", "e", "v", "i", "o", "u", "s", "-", "w", "i", "n", "d", "o", "w" >>
V_select_window ==
    << "s", "e", "l", "e", "c", "t", "-", "w", "i", "n", "d", "o", "w" >>
Flag_h == << "-", "h" >>
Flag_t == << "-", "t" >>

\* parts.iter().position(|p| *p == "-t").and_then(|i| parts.get(i + 1)),
\* as the 1-based place of the target token; 0 stands for None.
TargetPlace(parts) ==
    LET hits == { i \in 1..Len(parts) : parts[i] = Flag_t }
    IN  IF hits = {} THEN 0
        ELSE LET first == CHOOSE i \in hits : \A j \in hits : i <= j
             IN  IF first + 1 <= Len(parts) THEN first + 1 ELSE 0

execute_command_prompt(st, outcome) ==
    LET cmdline == IF st.mode.tag = "CommandPrompt" THEN st.mode.input ELSE <<>>
        s1 == [st EXCEPT !.mode = Passthrough]
        parts == split_whitespace(cmdline)
    IN  IF parts = <<>> THEN s1
        ELSE CASE parts[1] = V_new_window -> create_window(s1, outcome)
               [] parts[1] = V_split_window ->
                     split_active(s1,
                                  IF \E i \in 1..Len(parts) : parts[i] = Flag_h
                                  THEN "Horizontal" ELSE "Vertical",
                                  outcome)
               [] parts[1] = V_kill_pane -> kill_active_pane(s1)
               [] parts[1] = V_next_window ->
                     IF Len(s1.windows) = 0 THEN [s1 EXCEPT !.ret = "panic"]
                     ELSE [s1 EXCEPT !.active_idx = (@ + 1) % Len(s1.windows)]
               [] parts[1] = V_previous_window ->
                     IF Len(s1.windows) = 0 THEN [s1 EXCEPT !.ret = "panic"]
                     ELSE [s1 EXCEPT !.active_idx =
                              (@ + Len(s1.windows) - 1) % Len(s1.windows)]
               [] parts[1] = V_select_window ->
                     LET tp == TargetPlace(parts)
                         n == IF tp = 0 THEN -1 ELSE parse_usize(parts[tp])
                     IN  IF n > 0 /\ n <= Len(s1.windows)
                         THEN [s1 EXCEPT !.active_idx = n - 1]
                         ELSE s1
               [] OTHER -> s1

(***************************************************************************)
(* The input state machine.                                                *)
(***************************************************************************)
IsHardQuit(key) == key.code = "Char" /\ key.ch = "q" /\ "CONTROL" \in key.mods

\* prefix_key is (Char('b'), CONTROL); the raw U+0002 is accepted too.
is_ctrl_b(key) ==
    \/ key.code = "Char" /\ key.ch = "b" /\ key.mods = {"CONTROL"}
    \/ key.code = "Char" /\ key.ch = "^B"

handle_passthrough(st, key) ==
    IF is_ctrl_b(key) THEN [st EXCEPT !.mode = Prefix(0)]
    ELSE forward_key_to_active(st, key)

\* prefix_command whose 'n' stops at the last window instead of wrapping.
prefix_command_n_clamps(st, key, outcome) ==
    LET c == key.ch
    IN  CASE key.code = "Char" /\ is_ascii_digit(c) ->
               LET idx == to_digit(c)
               IN  [st |-> IF idx > 0 /\ idx <= Len(st.windows)
                           THEN [st EXCEPT !.active_idx = idx - 1] ELSE st,
                    handled |-> TRUE]
          [] key.code = "Char" /\ c = "c" ->
               [st |-> create_window(st, outcome), handled |-> TRUE]
          [] key.code = "Char" /\ c = "n" ->
               [st |-> IF Len(st.windows) # 0
                       THEN [st EXCEPT !.active_idx = Min(@ + 1, Len(st.windows) - 1)]
                       ELSE st,
                handled |-> TRUE]
          [] key.code = "Char" /\ c = "p" ->
               [st |-> IF Len(st.windows) # 0
                       THEN [st EXCEPT !.active_idx =
                                (@ + Len(st.windows) - 1) % Len(st.windows)]
                       ELSE st,
                handled |-> TRUE]
          [] key.code = "Char" /\ c = "%" ->
               [st |-> split_active(st, "Vertical", outcome), handled |-> TRUE]
          [] key.code = "Char" /\ c = "\"" ->
               [st |-> split_active(st, "Horizontal", outcome), handled |-> TRUE]
          [] key.code = "Char" /\ c = "x" ->
               [st |-> kill_active_pane(st), handled |-> TRUE]
          [] key.code = "Char" /\ c = ":" ->
               [st |-> [st EXCEPT !.mode = CommandPrompt(<<>>)], handled |-> TRUE]
          [] OTHER -> [st |-> st, handled |-> FALSE]

\* prefix_command whose 'n' steps to the previous window, as 'p' does.
prefix_command_n_back(st, key, outcome) ==
    LET c == key.ch
    IN  CASE key.code = "Char" /\ is_ascii_digit(c) ->
               LET idx == to_digit(c)
               IN  [st |-> IF idx > 0 /\ idx <= Len(st.windows)
                           THEN [st EXCEPT !.active_idx = idx - 1] ELSE st,
                    handled |-> TRUE]
          [] key.code = "Char" /\ c = "c" ->
               [st |-> create_window(st, outcome), handled |-> TRUE]
          [] key.code = "Char" /\ c = "n" ->
               [st |-> IF Len(st.windows) # 0
                       THEN [st EXCEPT !.active_idx =
                                (@ + Len(st.windows) - 1) % Len(st.windows)]
                       ELSE st,
                handled |-> TRUE]
          [] key.code = "Char" /\ c = "p" ->
               [st |-> IF Len(st.windows) # 0
                       THEN [st EXCEPT !.active_idx =
                                (@ + Len(st.windows) - 1) % Len(st.windows)]
                       ELSE st,
                handled |-> TRUE]
          [] key.code = "Char" /\ c = "%" ->
               [st |-> split_active(st, "Vertical", outcome), handled |-> TRUE]
          [] key.code = "Char" /\ c = "\"" ->
               [st |-> split_active(st, "Horizontal", outcome), handled |-> TRUE]
          [] key.code = "Char" /\ c = "x" ->
               [st |-> kill_active_pane(st), handled |-> TRUE]
          [] key.code = "Char" /\ c = ":" ->
               [st |-> [st EXCEPT !.mode = CommandPrompt(<<>>)], handled |-> TRUE]
          [] OTHER -> [st |-> st, handled |-> FALSE]

\* The match on key.code of the Prefix branch: the state it leaves and
\* whether the key was handled.
prefix_command(st, key, outcome) ==
    LET c == key.ch
    IN  CASE key.code = "Char" /\ is_ascii_digit(c) ->
               LET idx == to_digit(c)
               IN  [st |-> IF idx > 0 /\ idx <= Len(st.windows)
                           THEN [st EXCEPT !.active_idx = idx - 1] ELSE st,
                    handled |-> TRUE]
          [] key.code = "Char" /\ c = "c" ->
               [st |-> create_window(st, outcome), handled |-> TRUE]
          [] key.code = "Char" /\ c = "n" ->
               [st |-> IF Len(st.windows) # 0
                       THEN [st EXCEPT !.active_idx = (@ + 1) % Len(st.windows)]
                       ELSE st,
                handled |-> TRUE]
          [] key.code = "Char" /\ c = "p" ->
               [st |-> IF Len(st.windows) # 0
                       THEN [st EXCEPT !.active_idx =
                                (@ + Len(st.windows) - 1) % Len(st.windows)]
                       ELSE st,
                handled |-> TRUE]
          [] key.code = "Char" /\ c = "%" ->
               [st |-> split_active(st, "Vertical", outcome), handled |-> TRUE]
          [] key.code = "Char" /\ c = "\"" ->
               [st |-> split_active(st, "Horizontal", outcome), handled |-> TRUE]
          [] key.code = "Char" /\ c = "x" ->
               [st |-> kill_active_pane(st), handled |-> TRUE]
          [] key.code = "Char" /\ c = ":" ->
               [st |-> [st EXCEPT !.mode = CommandPrompt(<<>>)], handled |-> TRUE]
          [] OTHER -> [st |-> st, handled |-> FALSE]

\* prefix_finish leaving the mode armed after a key it did not handle.
prefix_finish_stay(s, handled, elapsed) ==
    IF ~handled THEN s ELSE [s EXCEPT !.mode = Passthrough]

\* prefix_finish sending the prefix byte to the active pane when a key it
\* did not handle comes after the escape time.
prefix_finish_reinject(s, handled, elapsed) ==
    LET s1 == [s EXCEPT !.mode = Passthrough]
    IN  IF ~handled /\ elapsed < escape_time_ms THEN s1
        ELSE IF ~handled /\ InBounds(s1)
        THEN [s1 EXCEPT !.wrote =
                 Append(@, [child |-> ActiveWin(s1).panes[ActiveWin(s1).active_pane + 1].child,
                            bytes |-> <<PrefixByte>>])]
        ELSE s1

\* What follows the match: the mode is reset, and the key is swallowed
\* whether or not the escape time has passed.
prefix_finish(s, handled, elapsed) ==
    LET s1 == [s EXCEPT !.mode = Passthrough]
    IN  IF ~handled /\ elapsed < escape_time_ms THEN s1 ELSE s1

handle_prefix(st, key, outcome) ==
    LET elapsed == st.mode.armed_for
        r == prefix_command(st, key, outcome)
    IN  IF r.st.ret # "ok" THEN r.st       \* the ? of create/split/kill
        ELSE prefix_finish(r.st, r.handled, elapsed)

handle_prompt(st, key, outcome) ==
    CASE key.code = "Esc" -> [st EXCEPT !.mode = Passthrough]
      [] key.code = "Enter" -> execute_command_prompt(st, outcome)
      [] key.code = "Backspace" ->
            [st EXCEPT !.mode.input =
                IF @ = <<>> THEN @ ELSE SubSeq(@, 1, Len(@) - 1)]
      [] key.code = "Char" -> [st EXCEPT !.mode.input = Append(@, key.ch)]
      [] OTHER -> st

\* handle_key testing for the hard-quit chord in Passthrough mode only.
handle_key_quit_late(st, key, outcome) ==
    CASE st.mode.tag = "Passthrough" ->
            IF IsHardQuit(key) THEN [st EXCEPT !.ret = "quit"]
            ELSE handle_passthrough(st, key)
      [] st.mode.tag = "Prefix" -> handle_prefix(st, key, outcome)
      [] st.mode.tag = "CommandPrompt" -> handle_prompt(st, key, outcome)

handle_key(st, key, outcome) ==
    IF IsHardQuit(key) THEN [st EXCEPT !.ret = "quit"]
    ELSE CASE st.mode.tag = "Passthrough" -> handle_passthrough(st, key)
           [] st.mode.tag = "Prefix" -> handle_prefix(st, key, outcome)
           [] st.mode.tag = "CommandPrompt" -> handle_prompt(st, key, outcome)

\* Whether handling key in this state calls the PTY host to spawn a child.
Spawns(st, key) ==
    /\ ~IsHardQuit(key)
    /\ \/ st.mode.tag = "Prefix" /\ key.code = "Char" /\ key.ch \in { "c", "%", "\"" }
       \/ /\ st.mode.tag = "CommandPrompt" /\ key.code = "Enter"
          /\ split_whitespace(st.mode.input) # <<>>
          /\ split_whitespace(st.mode.input)[1] \in { V_new_window, V_split_window }

(***************************************************************************)
(* Reaping.  try_wait reports an exit status for the children in ex.       *)
(***************************************************************************)
\* ReapPanes stepping past the pane that moved into a removed pane's place.
RECURSIVE ReapPanesSkip(_, _, _, _)
ReapPanesSkip(panes, active_pane, j, ex) ==
    IF j >= Len(panes) THEN [panes |-> panes, active_pane |-> active_pane]
    ELSE IF panes[j + 1].child \in ex
         THEN LET rest == Remove(panes, j)
              IN  ReapPanesSkip(rest,
                                IF active_pane >= Len(rest)
                                THEN saturating_sub(Len(rest), 1) ELSE active_pane,
                                j + 1, ex)
         ELSE ReapPanesSkip(panes, active_pane, j + 1, ex)

\* The inner loop over one window's panes, from pane j on.
RECURSIVE ReapPanes(_, _, _, _)
ReapPanes(panes, active_pane, j, ex) ==
    IF j >= Len(panes) THEN [panes |-> panes, active_pane |-> active_pane]
    ELSE IF panes[j + 1].child \in ex
         THEN LET rest == Remove(panes, j)
              IN  ReapPanes(rest,
                            IF active_pane >= Len(rest)
                            THEN saturating_sub(Len(rest), 1) ELSE active_pane,
                            j, ex)
         ELSE ReapPanes(panes, active_pane, j + 1, ex)

\* ReapWindows removing an empty window without the clamp of active_idx.
RECURSIVE ReapWindowsNoClamp(_, _, _, _)
ReapWindowsNoClamp(ws, aidx, i, ex) ==
    IF i >= Len(ws) THEN [windows |-> ws, active_idx |-> aidx]
    ELSE LET r == ReapPanes(ws[i + 1].panes, ws[i + 1].active_pane, 0, ex)
             win == [ws[i + 1] EXCEPT !.panes = r.panes,
                                      !.active_pane = r.active_pane]
         IN  IF Len(win.panes) = 0
             THEN ReapWindowsNoClamp(Remove(ws, i), aidx, i, ex)
             ELSE ReapWindowsNoClamp([ws EXCEPT ![i + 1] = win], aidx, i + 1, ex)

\* The outer loop over the windows, from window i on.
RECURSIVE ReapWindows(_, _, _, _)
ReapWindows(ws, aidx, i, ex) ==
    IF i >= Len(ws) THEN [windows |-> ws, active_idx |-> aidx]
    ELSE LET r == ReapPanes(ws[i + 1].panes, ws[i + 1].active_pane, 0, ex)
             win == [ws[i + 1] EXCEPT !.panes = r.panes,
                                      !.active_pane = r.active_pane]
         IN  IF Len(win.panes) = 0
             THEN LET rest == Remove(ws, i)
                  IN  ReapWindows(rest,
                                  IF aidx >= Len(rest)
                                  THEN saturating_sub(Len(rest), 1) ELSE aidx,
                                  i, ex)
             ELSE ReapWindows([ws EXCEPT ![i + 1] = win], aidx, i + 1, ex)

reap_children(ws, aidx, ex) ==
    LET r == ReapWindows(ws, aidx, 0, ex)
    IN  [windows |-> r.windows, active_idx |-> r.active_idx,
         empty |-> Len(r.windows) = 0]

\* The children of the panes in the model.
ChildrenOf(ws) ==
    UNION { { ws[i].panes[j].child : j \in 1..Len(ws[i].panes) } : i \in 1..Len(ws) }

(***************************************************************************)
(* State.                                                                  *)
(***************************************************************************)
NoEvent == [kind |-> "none"]
NoPre == [windows |-> <<>>, active_idx |-> 0, mode |-> Passthrough,
          next_child |-> 0, killed |-> {}]

\* The panes whose threads are followed.
ThreadPanes == 1..MaxThreadPanes

\* No render has completed.
NoFrame == [area |-> << 0, 0 >>, active_idx |-> 0, panes |-> <<>>,
            layout |-> "none"]

InitWith(hosts) ==
    /\ pc = "main"
    /\ result = "none"
    /\ env_active \in { "unset", "1" }
    /\ raw_mode = FALSE
    /\ alt_screen = FALSE
    /\ cursor_shown = FALSE
    /\ refused = FALSE
    /\ windows = <<>>
    /\ active_idx = 0
    /\ mode = Passthrough
    /\ quit = FALSE
    /\ since_resize = 0
    /\ next_child = 1
    /\ exited = {}
    /\ killed = {}
    /\ host \in hosts
    /\ pending = <<>>
    /\ ev = NoEvent
    /\ pre = NoPre
    /\ wrote = <<>>
    /\ frame = NoFrame
    /\ sup = [at |-> "drift", pane |-> 1]
    /\ term_lock = [p \in ThreadPanes |-> "free"]
    /\ reader_at = [p \in ThreadPanes |-> "read"]
    /\ master_end = [p \in ThreadPanes |-> "open"]
    /\ gone = {}

appVars == << windows, active_idx, mode, quit >>
termVars == << raw_mode, alt_screen, cursor_shown, refused, env_active >>
childVars == << next_child, exited, killed >>
histVars == << ev, pre, wrote, frame >>
hostVars == << host, pending >>
threadVars == << sup, term_lock, reader_at, master_end, gone >>
sessionVars == << pc, result, appVars, termVars, since_resize, childVars,
                 hostVars, histVars >>

(***************************************************************************)
(* main, before and after run.                                             *)
(***************************************************************************)
\* MainStart going on to raw mode without setting RMUX_ACTIVE.
MainStart_noset ==
    /\ pc = "main"
    /\ IF env_active = "1"
       THEN /\ refused' = TRUE
            /\ result' = "ok"
            /\ pc' = "done"
            /\ UNCHANGED env_active
       ELSE /\ env_active' = env_active
            /\ pc' = "raw"
            /\ UNCHANGED << refused, result >>
    /\ UNCHANGED << raw_mode, alt_screen, cursor_shown, appVars, since_resize,
                    childVars, hostVars, histVars >>
    /\ UNCHANGED threadVars

MainStart ==
    /\ pc = "main"
    /\ IF env_active = "1"
       THEN /\ refused' = TRUE
            /\ result' = "ok"
            /\ pc' = "done"
            /\ UNCHANGED env_active
       ELSE /\ env_active' = "1"
            /\ pc' = "raw"
            /\ UNCHANGED << refused, result >>
    /\ UNCHANGED << raw_mode, alt_screen, cursor_shown, appVars, since_resize,
                    childVars, hostVars, histVars >>
    /\ UNCHANGED threadVars

\* enable_raw_mode()?
EnableRaw(ok) ==
    /\ pc = "raw"
    /\ IF ok
       THEN raw_mode' = TRUE /\ pc' = "alt" /\ UNCHANGED result
       ELSE result' = "err" /\ pc' = "done" /\ UNCHANGED raw_mode
    /\ UNCHANGED << alt_screen, cursor_shown, refused, env_active, appVars,
                    since_resize, childVars, hostVars, histVars >>
    /\ UNCHANGED threadVars

\* execute!(EnterAlternateScreen, EnableBlinking)?, apply_cursor_style()?,
\* Terminal::new()?
SetupOutcomes == { "ok", "enter_failed", "later_failed" }
EnterAlt(outcome) ==
    /\ pc = "alt"
    /\ alt_screen' = (outcome # "enter_failed")
    /\ IF outcome = "ok"
       THEN pc' = "run" /\ UNCHANGED result
       ELSE pc' = "done" /\ result' = "err"
    /\ UNCHANGED << raw_mode, cursor_shown, refused, env_active, appVars,
                    since_resize, childVars, hostVars, histVars >>
    /\ UNCHANGED threadVars

\* disable_raw_mode()?, execute!(DisableBlinking, LeaveAlternateScreen)?,
\* terminal.show_cursor()?, then run's result.
ReleaseOutcomes == { "ok", "raw_failed", "leave_failed", "cursor_failed" }
Release(outcome) ==
    /\ pc = "release"
    /\ raw_mode' = IF outcome = "raw_failed" THEN raw_mode ELSE FALSE
    /\ alt_screen' = IF outcome \in { "raw_failed", "leave_failed" }
                     THEN alt_screen ELSE FALSE
    /\ cursor_shown' = (outcome = "ok")
    /\ result' = IF outcome = "ok" THEN result ELSE "err"
    /\ pc' = "done"
    /\ ev' = [kind |-> "none"]
    /\ pre' = [windows |-> <<>>, active_idx |-> 0, mode |-> Passthrough,
               next_child |-> 0, killed |-> {}]
    /\ wrote' = <<>>
    /\ frame' = NoFrame
    /\ UNCHANGED << refused, env_active, appVars, since_resize, childVars,
                    hostVars >>
    /\ UNCHANGED threadVars

(***************************************************************************)
(* run: the supervisor loop.                                               *)
(***************************************************************************)
\* The record the model operations work on, from the state.
AppSt ==
    [windows |-> windows, active_idx |-> active_idx, mode |-> mode,
     next_child |-> next_child, killed |-> killed, wrote |-> wrote,
     ret |-> "ok"]

Snapshot ==
    [windows |-> windows, active_idx |-> active_idx, mode |-> mode,
     next_child |-> next_child, killed |-> killed]

\* The PTY host refuses a spawn past MaxChildren.
HostAllows(outcome) == outcome = "refused" \/ next_child <= MaxChildren

\* The first create_window(...)? and last_resize = Instant::now().
RunInit(outcome) ==
    /\ pc = "run"
    /\ HostAllows(outcome)
    /\ LET s == create_window(AppSt, outcome)
       IN  /\ windows' = s.windows
           /\ active_idx' = s.active_idx
           /\ next_child' = s.next_child
           /\ IF s.ret = "ok"
              THEN pc' = "render" /\ UNCHANGED result
              ELSE pc' = "release" /\ result' = "err"
    /\ since_resize' = 0
    /\ UNCHANGED << mode, quit, termVars, exited, killed, hostVars, histVars >>
    /\ UNCHANGED threadVars

\* What a render lays out: the frame's area, the active window, its panes
\* (by their children) and its layout.
FrameNow ==
    [area |-> host, active_idx |-> active_idx,
     panes |-> [j \in 1..Len(windows[active_idx + 1].panes) |->
                   windows[active_idx + 1].panes[j].child],
     layout |-> windows[active_idx + 1].layout]

\* The panes of win for which a render of area finds last_rows/last_cols
\* off its target, and so calls master.resize and set_size.
ResizeCalls(win, area) ==
    LET pane_count == Max(Len(win.panes), 1)
    IN  Cardinality({ i \in 1..Len(win.panes) :
            \/ win.panes[i].last_rows # target_rows(area, win.layout, pane_count, i - 1)
            \/ win.panes[i].last_cols # target_cols(area, win.layout, pane_count, i - 1) })

\* terminal.draw(...)?: the frame's area is the host terminal's size now.
Render(ok) ==
    /\ pc = "render"
    /\ IF ~ok
       THEN /\ pc' = "release"
            /\ result' = "err"
            /\ UNCHANGED << windows, frame >>
       ELSE IF active_idx >= Len(windows)
       THEN /\ pc' = "panicked"
            /\ UNCHANGED << result, windows, frame >>
       ELSE /\ windows' = [windows EXCEPT ![active_idx + 1] = RenderWindow(@, host)]
            /\ frame' = FrameNow
            /\ pc' = "poll"
            /\ UNCHANGED result
    /\ UNCHANGED << active_idx, mode, quit, termVars, since_resize, childVars,
                    hostVars, ev, pre, wrote >>
    /\ UNCHANGED threadVars

\* Time passes while the loop waits in event::poll.
TimePasses ==
    /\ pc = "poll"
    /\ since_resize' = Min(since_resize + TickMs, ResizeDebounceMs + 1)
    /\ mode' = IF mode.tag = "Prefix"
               THEN Prefix(Min(mode.armed_for + TickMs, escape_time_ms))
               ELSE mode
    /\ << since_resize', mode' >> # << since_resize, mode >>
    /\ UNCHANGED << pc, result, windows, active_idx, quit, termVars, childVars,
                    hostVars, histVars >>
    /\ UNCHANGED threadVars

\* The user resizes the host terminal; an Event::Resize is queued.
HostResize(size) ==
    /\ pc \in { "render", "poll" }
    /\ size # host
    /\ Len(pending) < MaxPending
    /\ host' = size
    /\ pending' = Append(pending, size)
    /\ UNCHANGED << pc, result, appVars, termVars, since_resize, childVars,
                    histVars >>
    /\ UNCHANGED threadVars

\* The child of a pane exits by itself.
ChildExit(c) ==
    /\ pc = "poll"
    /\ c \in ChildrenOf(windows) \ exited
    /\ exited' = exited \cup {c}
    /\ UNCHANGED << pc, result, appVars, termVars, since_resize, next_child,
                    killed, hostVars, histVars >>
    /\ UNCHANGED threadVars

\* event::poll(...)? or event::read()? fails.
PollFail ==
    /\ pc = "poll"
    /\ pc' = "release"
    /\ result' = "err"
    /\ UNCHANGED << appVars, termVars, since_resize, childVars, hostVars,
                    histVars >>
    /\ UNCHANGED threadVars

\* No event within the timeout, or an event the loop ignores.
PollTimeout ==
    /\ pc = "poll"
    /\ pc' = "reap"
    /\ ev' = [kind |-> "timeout"]
    /\ pre' = Snapshot
    /\ UNCHANGED << result, appVars, termVars, since_resize, childVars,
                    hostVars, wrote, frame >>
    /\ UNCHANGED threadVars

\* Event::Key of kind Press: handle_key(&mut app, key)?
PollKey(key, outcome) ==
    /\ pc = "poll"
    /\ IF Spawns(AppSt, key) THEN HostAllows(outcome) ELSE outcome = "ok"
    /\ LET s == handle_key(AppSt, key, outcome)
       IN  /\ windows' = s.windows
           /\ active_idx' = s.active_idx
           /\ mode' = s.mode
           /\ next_child' = s.next_child
           /\ killed' = s.killed
           /\ wrote' = s.wrote
           /\ quit' = (quit \/ s.ret = "quit")
           /\ pc' = CASE s.ret = "err" -> "release"
                      [] s.ret = "panic" -> "panicked"
                      [] OTHER -> "reap"
           /\ result' = IF s.ret = "err" THEN "err" ELSE result
    /\ ev' = [kind |-> "key", key |-> key, outcome |-> outcome]
    /\ pre' = Snapshot
    /\ UNCHANGED << termVars, since_resize, exited, hostVars, frame >>
    /\ UNCHANGED threadVars

\* Event::Resize(cols, rows): debounced, then applied to the active pane's
\* PTY and Screen.
PollResize ==
    /\ pc = "poll"
    /\ pending # <<>>
    /\ LET rows == Head(pending)[1]
           cols == Head(pending)[2]
       IN  IF since_resize > ResizeDebounceMs
           THEN IF active_idx >= Len(windows)
                   \/ windows[active_idx + 1].active_pane
                        >= Len(windows[active_idx + 1].panes)
                THEN /\ pc' = "panicked"
                     /\ UNCHANGED << windows, since_resize >>
                ELSE /\ windows' = [windows EXCEPT ![active_idx + 1] =
                                        ResizeActivePane(@, rows, cols)]
                     /\ since_resize' = 0
                     /\ pc' = "reap"
           ELSE /\ pc' = "reap"
                /\ UNCHANGED << windows, since_resize >>
    /\ pending' = Tail(pending)
    /\ ev' = [kind |-> "resize", size |-> Head(pending),
              applied |-> (since_resize > ResizeDebounceMs)]
    /\ pre' = Snapshot
    /\ UNCHANGED << result, active_idx, mode, quit, termVars, childVars, host,
                    wrote, frame >>
    /\ UNCHANGED threadVars

\* reap_children(&mut app)?, then "if quit { break; }".  The Child of a
\* pane that was removed is dropped with the pane.
Reap ==
    /\ pc = "reap"
    /\ LET r == reap_children(windows, active_idx, exited)
       IN  /\ windows' = r.windows
           /\ active_idx' = r.active_idx
           /\ quit' = (quit \/ r.empty)
           /\ pc' = IF quit \/ r.empty THEN "teardown" ELSE "render"
           /\ exited' = exited \cap ChildrenOf(r.windows)
           /\ killed' = killed \cap ChildrenOf(r.windows)
    /\ ev' = NoEvent
    /\ pre' = NoPre
    /\ wrote' = <<>>
    /\ UNCHANGED << result, mode, termVars, since_resize, next_child, hostVars,
                    frame >>
    /\ UNCHANGED threadVars

\* After the loop: kill every pane's child, return Ok(()).
Teardown ==
    /\ pc = "teardown"
    /\ killed' = killed \cup ChildrenOf(windows)
    /\ result' = "ok"
    /\ pc' = "release"
    /\ UNCHANGED << appVars, termVars, since_resize, next_child, exited,
                    hostVars, histVars >>
    /\ UNCHANGED threadVars

\* What main and run do whatever the events are.
Program ==
    \/ MainStart
    \/ \E ok \in BOOLEAN : EnableRaw(ok)
    \/ \E o \in SetupOutcomes : EnterAlt(o)
    \/ \E o \in SpawnOutcomes : RunInit(o)
    \/ \E ok \in BOOLEAN : Render(ok)
    \/ TimePasses
    \/ \E c \in 1..MaxChildren : ChildExit(c)
    \/ PollFail
    \/ PollTimeout
    \/ Reap
    \/ Teardown
    \/ \E o \in ReleaseOutcomes : Release(o)

\* The session under every key, on a host terminal that keeps its size.
Init == InitWith({FixedHost})
Next ==
    \/ Program
    \/ \E key \in Keys, o \in SpawnOutcomes : PollKey(key, o)

Spec == Init /\ [][Next]_vars

\* The session under host resizes and the keys that change the layout, with
\* no failure of the PTY host or of the host terminal.
InitGeom == InitWith(HostSizes)
NextGeom ==
    \/ MainStart
    \/ EnableRaw(TRUE)
    \/ EnterAlt("ok")
    \/ RunInit("ok")
    \/ Render(TRUE)
    \/ TimePasses
    \/ \E c \in 1..MaxChildren : ChildExit(c)
    \/ PollTimeout
    \/ \E key \in GeomKeys :
          /\ Spawns(AppSt, key) => next_child <= MaxGeomChildren
          /\ PollKey(key, "ok")
    \/ \E size \in HostSizes : HostResize(size)
    \/ PollResize
    \/ Reap
    \/ Teardown
    \/ Release("ok")

SpecGeom == InitGeom /\ [][NextGeom]_vars

\* The session of one window under host resizes and the keys that split it,
\* with no failure of the PTY host or of the host terminal.
LayoutKeys == { Ctrl("b"), Ch("%"), Ch("\"") }
NextLayout ==
    \/ MainStart
    \/ EnableRaw(TRUE)
    \/ EnterAlt("ok")
    \/ RunInit("ok")
    \/ Render(TRUE)
    \/ TimePasses
    \/ \E c \in 1..MaxChildren : ChildExit(c)
    \/ PollTimeout
    \/ \E key \in LayoutKeys :
          /\ Spawns(AppSt, key) => next_child <= MaxChildren
          /\ PollKey(key, "ok")
    \/ \E size \in HostSizes : HostResize(size)
    \/ PollResize
    \/ Reap
    \/ Teardown
    \/ Release("ok")

SpecLayout == InitGeom /\ [][NextLayout]_vars

(***************************************************************************)
(* The threads, step by step: the supervisor in the render's loop over the *)
(* panes, in the poll and in the reap, and each pane's reader thread, with *)
(* the Mutex around each pane's Screen.  A thread that asks for a Mutex    *)
(* waits until it is free.                                                 *)
(***************************************************************************)
LivePanes == ThreadPanes \ gone

\* The pane the render's loop visits after pane p; 0 after the last one.
NextPane(p, live) ==
    IF \E q \in live : q > p
    THEN CHOOSE q \in live : q > p /\ \A r \in live : r > p => q <= r
    ELSE 0

\* "if pane.last_rows != target_rows || pane.last_cols != target_cols"
SupDrift(drifted) ==
    /\ sup.at = "drift"
    /\ sup' = [sup EXCEPT !.at = IF drifted THEN "resize" ELSE "lock_sample"]
    /\ UNCHANGED << term_lock, reader_at, master_end, gone, sessionVars >>

\* pane.master.resize(...), in the render
SupResize ==
    /\ sup.at = "resize"
    /\ sup' = [sup EXCEPT !.at = "lock_set_size"]
    /\ UNCHANGED << term_lock, reader_at, master_end, gone, sessionVars >>

\* "let mut parser = pane.term.lock().unwrap()", in the drift branch
SupLockSetSize ==
    /\ sup.at = "lock_set_size"
    /\ term_lock[sup.pane] = "free"
    /\ term_lock' = [term_lock EXCEPT ![sup.pane] = "supervisor"]
    /\ sup' = [sup EXCEPT !.at = "set_size"]
    /\ UNCHANGED << reader_at, master_end, gone, sessionVars >>

\* SupSetSize keeping the guard of the drift branch alive past its block.
SupSetSize_keep ==
    /\ sup.at = "set_size"
    /\ sup' = [sup EXCEPT !.at = "lock_sample"]
    /\ UNCHANGED << term_lock, reader_at, master_end, gone, sessionVars >>

\* set_size and the record of the size; the guard is dropped where the
\* drift branch ends.
SupSetSize ==
    /\ sup.at = "set_size"
    /\ term_lock' = [term_lock EXCEPT ![sup.pane] = "free"]
    /\ sup' = [sup EXCEPT !.at = "lock_sample"]
    /\ UNCHANGED << reader_at, master_end, gone, sessionVars >>

\* "let parser = pane.term.lock().unwrap()", before the cells are read
SupLockSample ==
    /\ sup.at = "lock_sample"
    /\ term_lock[sup.pane] = "free"
    /\ term_lock' = [term_lock EXCEPT ![sup.pane] = "supervisor"]
    /\ sup' = [sup EXCEPT !.at = "sample"]
    /\ UNCHANGED << reader_at, master_end, gone, sessionVars >>

\* The pane's cells are read into the frame; the guard is dropped where the
\* loop's body ends, and the loop goes to the next pane or the draw ends.
SupSample ==
    /\ sup.at = "sample"
    /\ term_lock' = [term_lock EXCEPT ![sup.pane] = "free"]
    /\ sup' = IF NextPane(sup.pane, LivePanes) # 0
              THEN [at |-> "drift", pane |-> NextPane(sup.pane, LivePanes)]
              ELSE [at |-> "poll", pane |-> 0]
    /\ UNCHANGED << reader_at, master_end, gone, sessionVars >>

\* event::poll and event::read: no event, a key forwarded to the active
\* pane, or a resize applied to the active pane p.
PollEvents == { "none", "key", "resize" }
SupPoll(event, p) ==
    /\ sup.at = "poll"
    /\ p \in LivePanes
    /\ sup' = CASE event = "key" -> [at |-> "write", pane |-> p]
                [] event = "resize" -> [at |-> "event_resize", pane |-> p]
                [] OTHER -> [at |-> "reap", pane |-> 0]
    /\ UNCHANGED << term_lock, reader_at, master_end, gone, sessionVars >>

\* write!(active.master, ...)
SupWrite ==
    /\ sup.at = "write"
    /\ sup' = [at |-> "reap", pane |-> 0]
    /\ UNCHANGED << term_lock, reader_at, master_end, gone, sessionVars >>

\* master.resize(...), in the Event::Resize handler
SupEventResize ==
    /\ sup.at = "event_resize"
    /\ sup' = [sup EXCEPT !.at = "lock_event"]
    /\ UNCHANGED << term_lock, reader_at, master_end, gone, sessionVars >>

\* "let mut parser = pane.term.lock().unwrap()", in the handler
SupLockEvent ==
    /\ sup.at = "lock_event"
    /\ term_lock[sup.pane] = "free"
    /\ term_lock' = [term_lock EXCEPT ![sup.pane] = "supervisor"]
    /\ sup' = [sup EXCEPT !.at = "event_set_size"]
    /\ UNCHANGED << reader_at, master_end, gone, sessionVars >>

\* set_size in the handler; the guard is dropped where the if-let ends.
SupEventSetSize ==
    /\ sup.at = "event_set_size"
    /\ term_lock' = [term_lock EXCEPT ![sup.pane] = "free"]
    /\ sup' = [at |-> "reap", pane |-> 0]
    /\ UNCHANGED << reader_at, master_end, gone, sessionVars >>

\* reap_children removes the panes whose child has exited; the loop ends
\* when none is left.
SupReap ==
    /\ sup.at = "reap"
    /\ LET ended == { p \in LivePanes : master_end[p] # "open" }
           live == LivePanes \ ended
       IN  /\ gone' = gone \cup ended
           /\ sup' = IF live = {} THEN [at |-> "stopped", pane |-> 0]
                     ELSE [at |-> "drift", pane |-> NextPane(0, live)]
    /\ UNCHANGED << term_lock, reader_at, master_end, sessionVars >>

\* The loop has ended: run and main return and the process exits, which
\* ends every reader thread where it is.
ProcessExit ==
    /\ sup.at = "stopped"
    /\ sup' = [at |-> "exited", pane |-> 0]
    /\ reader_at' = [p \in ThreadPanes |-> "done"]
    /\ term_lock' = [p \in ThreadPanes |-> "free"]
    /\ UNCHANGED << master_end, gone, sessionVars >>

\* The supervisor thread.
Supervisor ==
    \/ \E drifted \in BOOLEAN : SupDrift(drifted)
    \/ SupResize
    \/ SupLockSetSize
    \/ SupSetSize
    \/ SupLockSample
    \/ SupSample
    \/ \E event \in PollEvents, p \in ThreadPanes : SupPoll(event, p)
    \/ SupWrite
    \/ SupEventResize
    \/ SupLockEvent
    \/ SupEventSetSize
    \/ SupReap
    \/ ProcessExit

\* The child of pane p exits and its master becomes unreadable: from then
\* on reader.read returns Err ("error") or Ok(0) ("eof").
MasterEnds == { "error", "eof" }
ChildEnds(p, how) ==
    /\ master_end[p] = "open"
    /\ master_end' = [master_end EXCEPT ![p] = how]
    /\ UNCHANGED << sup, term_lock, reader_at, gone, sessionVars >>

\* "match reader.read(&mut local)": Ok(n) with n > 0 goes on to the lock,
\* Ok(0) to the sleep, Err leaves the loop.
ReaderRead(p) ==
    /\ reader_at[p] = "read"
    /\ reader_at' = [reader_at EXCEPT ![p] =
           CASE master_end[p] = "open" -> "lock"
             [] master_end[p] = "eof" -> "sleep"
             [] OTHER -> "done"]
    /\ UNCHANGED << sup, term_lock, master_end, gone, sessionVars >>

\* "let mut parser = term_reader.lock().unwrap()"
ReaderLock(p) ==
    /\ reader_at[p] = "lock"
    /\ term_lock[p] = "free"
    /\ term_lock' = [term_lock EXCEPT ![p] = "reader"]
    /\ reader_at' = [reader_at EXCEPT ![p] = "process"]
    /\ UNCHANGED << sup, master_end, gone, sessionVars >>

\* parser.process(&local[..n]); the guard is dropped where the arm ends.
ReaderProcess(p) ==
    /\ reader_at[p] = "process"
    /\ term_lock' = [term_lock EXCEPT ![p] = "free"]
    /\ reader_at' = [reader_at EXCEPT ![p] = "read"]
    /\ UNCHANGED << sup, master_end, gone, sessionVars >>

\* thread::sleep(Duration::from_millis(5))
ReaderSleep(p) ==
    /\ reader_at[p] = "sleep"
    /\ reader_at' = [reader_at EXCEPT ![p] = "read"]
    /\ UNCHANGED << sup, term_lock, master_end, gone, sessionVars >>

\* The reader thread of pane p.
Reader(p) ==
    \/ ReaderRead(p)
    \/ ReaderLock(p)
    \/ ReaderProcess(p)
    \/ ReaderSleep(p)

InitThreads == InitWith({FixedHost}) /\ env_active = "unset"
NextThreads ==
    \/ Supervisor
    \/ \E p \in ThreadPanes : Reader(p)
    \/ \E p \in ThreadPanes, how \in MasterEnds : ChildEnds(p, how)

\* Every thread that can take a step, always or again and again, takes one
\* in the end: the scheduler runs every thread, and a thread that waits for
\* a Mutex gets it.
SpecThreads ==
    /\ InitThreads
    /\ [][NextThreads]_vars
    /\ SF_vars(Supervisor)
    /\ \A p \in ThreadPanes : SF_vars(Reader(p))

(***************************************************************************)
(* Properties.                                                             *)
(***************************************************************************)
\* The event of this iteration is a key that handle_key found in Prefix mode.
KeyInPrefix == ev.kind = "key" /\ pre.mode.tag = "Prefix"

\* handle_key has returned Ok and the loop is about to reap.
Handled == pc = "reap" /\ ev.kind = "key"

\* The model as handle_key found it is the model now.
ModelUnchanged ==
    /\ windows = pre.windows
    /\ active_idx = pre.active_idx
    /\ next_child = pre.next_child
    /\ killed = pre.killed

\* C1: in every reachable state, if a window exists then active_idx is below
\* windows.len(), and every window's active_pane is below its panes.len().
C1_IndicesInBounds ==
    /\ Len(windows) > 0 => active_idx < Len(windows)
    /\ \A i \in 1..Len(windows) :
          windows[i].active_pane < Len(windows[i].panes)

\* C1's case: kill_active_pane removed the last pane of a window while it
\* was the active one, and clamped active_pane.
C1_Witness ==
    /\ Handled /\ KeyInPrefix /\ ev.key = Ch("x")
    /\ Len(pre.windows[pre.active_idx + 1].panes) = 2
    /\ pre.windows[pre.active_idx + 1].active_pane = 1
    /\ Len(windows[active_idx + 1].panes) = 1
    /\ windows[active_idx + 1].active_pane = 0

\* C2 (as claimed): a ':' handled in Prefix mode leaves the mode
\* CommandPrompt with an empty buffer; characters handled in CommandPrompt
\* mode are appended to the buffer and not written to a pane; and Enter on
\* the buffer "split-window -h" adds a pane and sets the layout Horizontal.
C2_PromptEntered ==
    /\ (Handled /\ KeyInPrefix /\ ev.key = Ch(":")) => mode = CommandPrompt(<<>>)
    /\ (Handled /\ pre.mode.tag = "CommandPrompt" /\ ev.key.code = "Char"
          /\ ~IsHardQuit(ev.key))
         => (wrote = <<>> /\ mode = CommandPrompt(Append(pre.mode.input, ev.key.ch)))
    /\ (Handled /\ pre.mode.tag = "CommandPrompt" /\ ev.key = Named("Enter")
          /\ split_whitespace(pre.mode.input) = << V_split_window, Flag_h >>)
         => /\ Len(windows[active_idx + 1].panes)
                 = Len(pre.windows[pre.active_idx + 1].panes) + 1
            /\ windows[active_idx + 1].layout = "Horizontal"

C4_SpawnFailureKeepsSession ==
    (ev.kind = "key" /\ ev.outcome = "refused")
        => (ModelUnchanged /\ pc = "reap" /\ result = "none")

\* C5 (as claimed): when the program returns after the supervisor loop was
\* entered, every child of a pane still in the model was killed, raw mode is
\* off, the alternate screen is left and the cursor was shown.
C5_TeardownOnEveryExit ==
    (pc = "done" /\ Len(windows) > 0)
        => /\ ChildrenOf(windows) \subseteq killed
           /\ ~raw_mode /\ ~alt_screen /\ cursor_shown

\* A pane's PTY and Screen have the size of its inner rectangle (at least
\* 1 x 1), as pane i (0-based) of n of a window laid out in the area.
Synced(pane, area, layout, n, i) ==
    /\ pane.pty_rows = target_rows(area, layout, n, i)
    /\ pane.pty_cols = target_cols(area, layout, n, i)
    /\ pane.scr_rows = target_rows(area, layout, n, i)
    /\ pane.scr_cols = target_cols(area, layout, n, i)

Snapped(pane, area, layout, n, i) ==
    /\ pane.last_rows = target_rows(area, layout, n, i)
    /\ pane.last_cols = target_cols(area, layout, n, i)

\* The PTY is out of step with the size the render applied last.
Drifted(pane) ==
    pane.pty_rows # pane.last_rows \/ pane.pty_cols # pane.last_cols

RenderStep == pc = "render" /\ pc' = "poll"

\* C6 (as claimed): when a render completes, every pane of every window has
\* last_rows and last_cols equal to its inner rectangle's, and a Screen of
\* that size.
C6_RenderSnapsEveryPane ==
    [][RenderStep =>
         \A i \in 1..Len(windows') : \A j \in 1..Len(windows'[i].panes) :
            LET w == windows'[i]
            IN  /\ Snapped(w.panes[j], host, w.layout, Len(w.panes), j - 1)
                /\ w.panes[j].scr_rows
                      = target_rows(host, w.layout, Len(w.panes), j - 1)
                /\ w.panes[j].scr_cols
                      = target_cols(host, w.layout, Len(w.panes), j - 1)]_vars

\* C7 (as claimed): a pane whose PTY and Screen the resize handler has set
\* has them at its inner rectangle's size when the following render
\* completes.
C7_ResizeConverges ==
    [][RenderStep =>
         LET w == windows[active_idx + 1]
             w2 == windows'[active_idx + 1]
         IN  \A j \in 1..Len(w.panes) :
                Drifted(w.panes[j])
                   => Synced(w2.panes[j], host, w2.layout, Len(w2.panes), j - 1)]_vars

\* C8: when reap_children has run, no pane whose child has exited is in the
\* model and no window is empty; the loop goes on only with a window left,
\* and with none it has set quit and left the loop.
C8_ReapRemovesExited ==
    /\ pc \in { "render", "teardown" }
         => /\ ChildrenOf(windows) \cap exited = {}
            /\ \A i \in 1..Len(windows) : Len(windows[i].panes) > 0
    /\ pc = "render" => Len(windows) > 0
    /\ (pc = "teardown" /\ Len(windows) = 0) => quit

\* C8's case: the loop is back at its top with a window left, after reaping
\* removed a window whose single pane the last render had drawn (a single
\* pane leaves the model only when its child has exited).
C8_Witness ==
    /\ pc = "render"
    /\ Len(windows) >= 1
    /\ Len(frame.panes) = 1
    /\ frame.panes[1] \notin ChildrenOf(windows)

\* C9: control+Q, in whatever mode handle_key finds, makes handle_key
\* report quit with no byte written and the model and the mode as they
\* were; once quit is set the loop does not render or poll again; and
\* handle_key answers so in each of the three modes, also in the modes the
\* session is not in at the time.
C9_HardQuit ==
    /\ (ev.kind = "key" /\ IsHardQuit(ev.key))
         => (pc = "reap" /\ quit /\ wrote = <<>> /\ ModelUnchanged
             /\ mode = pre.mode)
    /\ quit => pc \in { "reap", "teardown", "release", "done" }
    /\ pc = "poll"
         => \A m \in { Passthrough, Prefix(0), Prefix(escape_time_ms),
                        CommandPrompt(<<>>), CommandPrompt(<< "q" >>) } :
               handle_key([AppSt EXCEPT !.mode = m], Ctrl("q"), "ok")
                  = [AppSt EXCEPT !.mode = m, !.ret = "quit"]

\* C9's case: control+Q was handled in Prefix mode.
C9_Witness ==
    /\ Handled /\ KeyInPrefix /\ IsHardQuit(ev.key)
    /\ quit

\* A key the Prefix branch binds to a command, or the hard-quit chord.
BoundKey(key) ==
    \/ IsHardQuit(key)
    \/ key.code = "Char" /\ key.ch \in { "c", "n", "p", "%", "\"", "x", ":" }

\* A digit key that selects no window of ws.
DigitOutOfRange(key, ws) ==
    /\ key.code = "Char" /\ is_ascii_digit(key.ch)
    /\ to_digit(key.ch) = 0 \/ to_digit(key.ch) > Len(ws)

IsDigitKey(key) == key.code = "Char" /\ is_ascii_digit(key.ch)

\* C10: in Prefix mode, a digit that selects no window and a key bound to
\* no command leave the model unchanged, write no byte to any pane and set
\* the mode to Passthrough, before and after the escape time.
C10_UnboundKeySwallowed ==
    (KeyInPrefix /\ ~BoundKey(ev.key)
       /\ (IsDigitKey(ev.key) => DigitOutOfRange(ev.key, pre.windows)))
        => (pc = "reap" /\ ModelUnchanged /\ wrote = <<>> /\ mode = Passthrough)

\* C10's case: a key bound to nothing was handled once the escape time had
\* passed since the prefix.
C10_Witness ==
    /\ Handled /\ KeyInPrefix
    /\ pre.mode.armed_for >= escape_time_ms
    /\ ev.key = Named("Enter")
    /\ Len(windows) = 2

\* handle_key called for the keys of successive loop iterations in which no
\* child exits and the PTY host spawns what it is asked to; it stops at the
\* first key handle_key does not return Ok(false) for.
RECURSIVE RunKeys(_, _)
RunKeys(st, keys) ==
    IF keys = <<>> \/ st.ret # "ok" THEN st
    ELSE RunKeys(handle_key(st, Head(keys), "ok"), Tail(keys))

\* The active window as handle_key found it, and as it is now.
PreWin == pre.windows[pre.active_idx + 1]
CurWin == windows[active_idx + 1]

\* The children of a sequence of panes, in order.
Children(panes) == [j \in 1..Len(panes) |-> panes[j].child]

\* C11: kill_active_pane on a window with one pane changes nothing (no pane
\* removed, no child killed, no byte written); the number of windows only
\* goes down in a reap_children step, and the panes that step removes are
\* panes of children that have exited.
C11_SinglePaneKillIsNoOp ==
    [][/\ (pc = "poll" /\ mode.tag = "Prefix" /\ pc' = "reap"
             /\ ev'.kind = "key" /\ ev'.key = Ch("x")
             /\ Len(windows[active_idx + 1].panes) = 1)
          => /\ windows' = windows /\ active_idx' = active_idx
             /\ killed' = killed /\ next_child' = next_child
             /\ wrote' = <<>>
             /\ kill_active_pane(AppSt) = AppSt
       /\ Len(windows') < Len(windows) => pc = "reap"
       /\ pc = "reap"
          => (ChildrenOf(windows) \ ChildrenOf(windows')) \subseteq exited
      ]_vars

\* C11's case: prefix 'x' was handled on a window with a single pane.
C11_Witness ==
    /\ Handled /\ KeyInPrefix /\ ev.key = Ch("x")
    /\ Len(PreWin.panes) = 1
    /\ Len(windows) = 2

\* C12: split_active followed at once by kill_active_pane leaves the active
\* window with the panes it had before the split, in their order and
\* unchanged, and every other window as it was; the child killed is the one
\* the split spawned.  In the session, prefix 'x' on the pane of the newest
\* child, the last of its window, leaves the panes before it.
C12_SplitThenKillRestores ==
    /\ (pc = "poll" /\ InBounds(AppSt))
         => \A kind \in { "Vertical", "Horizontal" } :
               LET s1 == split_active(AppSt, kind, "ok")
                   s2 == kill_active_pane(s1)
               IN  /\ s2.ret = "ok"
                   /\ Len(ActiveWin(s2).panes) = Len(CurWin.panes)
                   /\ ActiveWin(s2).panes = CurWin.panes
                   /\ \A i \in 1..Len(windows) :
                         i # active_idx + 1 => s2.windows[i] = windows[i]
                   /\ Len(s2.windows) = Len(windows)
                   /\ s2.active_idx = active_idx
                   /\ s2.killed = killed \cup { next_child }
    /\ (Handled /\ KeyInPrefix /\ ev.key = Ch("x")
          /\ Len(PreWin.panes) > 1
          /\ PreWin.active_pane = Len(PreWin.panes) - 1
          /\ PreWin.panes[Len(PreWin.panes)].child = pre.next_child - 1)
         => /\ CurWin.panes = SubSeq(PreWin.panes, 1, Len(PreWin.panes) - 1)
            /\ killed = pre.killed \cup { pre.next_child - 1 }

\* C12's case: prefix 'x' was handled on the pane a split had added as the
\* third of its window, and the two panes before it are left.
C12_Witness ==
    /\ Handled /\ KeyInPrefix /\ ev.key = Ch("x")
    /\ Len(PreWin.panes) = 3
    /\ PreWin.active_pane = 2
    /\ PreWin.panes[3].child = pre.next_child - 1
    /\ Children(CurWin.panes) = Children(SubSeq(PreWin.panes, 1, 2))

\* C13: a split_active that succeeds appends one pane, of the child just
\* spawned, at the end of the active window's panes, makes it the active
\* pane, sets the window's layout to the kind asked for, and leaves
\* active_idx and every other window unchanged.
C13_SplitAppendsActivePane ==
    (Handled /\ KeyInPrefix /\ ev.key \in { Ch("%"), Ch("\"") })
        => LET kind == IF ev.key.ch = "%" THEN "Vertical" ELSE "Horizontal"
           IN  /\ ev.outcome = "ok"
               /\ active_idx = pre.active_idx
               /\ Len(windows) = Len(pre.windows)
               /\ \A i \in 1..Len(windows) :
                     i # active_idx + 1 => windows[i] = pre.windows[i]
               /\ CurWin.panes = Append(PreWin.panes, NewPane(pre.next_child))
               /\ CurWin.active_pane = Len(CurWin.panes) - 1
               /\ CurWin.layout = kind
               /\ next_child = pre.next_child + 1

\* C13's case: prefix '%' was handled on a window of one pane, which now has
\* two panes, the second active, and the layout Vertical.
C13_Witness ==
    /\ Handled /\ KeyInPrefix /\ ev.key = Ch("%")
    /\ Len(PreWin.panes) = 1 /\ PreWin.layout = "Horizontal"
    /\ Len(CurWin.panes) = 2 /\ CurWin.active_pane = 1
    /\ CurWin.layout = "Vertical"

\* The loop polls for the first time: the model is the single window that
\* run created at startup.
AfterStartup ==
    /\ pc = "poll"
    /\ windows = << NewWindow(1) >> \/ windows = << RenderWindow(NewWindow(1), host) >>
    /\ active_idx = 0 /\ mode = Passthrough /\ next_child = 2

PrefixThen(c) == << Ctrl("b"), Ch(c) >>

\* C14 (as claimed): from the single window of startup, prefix 'c' twice
\* gives 3 windows, and prefix 'n' three times after that leaves active_idx
\* at 0.
C14_CycleEndsAtZero ==
    AfterStartup
        => LET s == RunKeys(AppSt, PrefixThen("c") \o PrefixThen("c"))
               t == RunKeys(s, PrefixThen("n") \o PrefixThen("n") \o PrefixThen("n"))
           IN  Len(s.windows) = 3 /\ t.ret = "ok" /\ t.active_idx = 0

\* C14 (amended): from the single window of startup, prefix 'c' twice gives
\* 3 windows with the last one active (active_idx 2), and prefix 'n' three
\* times after that moves active_idx to 0, to 1 and back to 2.
C14_CycleEndsAtLastCreated ==
    AfterStartup
        => LET s == RunKeys(AppSt, PrefixThen("c") \o PrefixThen("c"))
               t1 == RunKeys(s, PrefixThen("n"))
               t2 == RunKeys(t1, PrefixThen("n"))
               t3 == RunKeys(t2, PrefixThen("n"))
           IN  /\ Len(s.windows) = 3 /\ s.active_idx = 2
               /\ t1.active_idx = 0 /\ t2.active_idx = 1
               /\ t3.ret = "ok" /\ t3.active_idx = 2 /\ t3.mode = Passthrough
               /\ t3.windows = s.windows

\* C14's case: in a session that created two windows after startup and lost
\* no child, prefix 'n' has moved active_idx from 1 to 2.
C14_Witness ==
    /\ Handled /\ KeyInPrefix /\ ev.key = Ch("n")
    /\ Len(windows) = 3 /\ next_child = 4 /\ exited = {}
    /\ \A i \in 1..3 : Len(windows[i].panes) = 1
    /\ pre.active_idx = 1 /\ active_idx = 2

\* Prefix 'n', k times.
RECURSIVE NextWindowKeys(_)
NextWindowKeys(k) ==
    IF k = 0 THEN <<>> ELSE PrefixThen("n") \o NextWindowKeys(k - 1)

\* C15: with k >= 1 windows, prefix 'n' moves active_idx to
\* (active_idx + 1) mod k and changes nothing else of the model; from every
\* starting active_idx, k of them in a row return active_idx to where it
\* started; and the prompt's next-window moves active_idx the same way.
C15_NextWindowCycles ==
    /\ (Handled /\ KeyInPrefix /\ ev.key = Ch("n"))
         => /\ active_idx = (pre.active_idx + 1) % Len(pre.windows)
            /\ windows = pre.windows
    /\ (pc = "poll" /\ Len(windows) >= 1)
         => \A a \in 0..(Len(windows) - 1) :
               LET s0 == [AppSt EXCEPT !.active_idx = a, !.mode = Passthrough]
                   s == RunKeys(s0, NextWindowKeys(Len(windows)))
                   e == handle_key([s0 EXCEPT !.mode = CommandPrompt(V_next_window)],
                                   Named("Enter"), "ok")
               IN  /\ s.ret = "ok" /\ s.active_idx = a /\ s.windows = windows
                   /\ RunKeys(s0, PrefixThen("n")).active_idx = (a + 1) % Len(windows)
                   /\ e.active_idx = (a + 1) % Len(windows)

\* C15's case: with three windows, prefix 'n' wrapped active_idx from 2 to 0.
C15_Witness ==
    /\ Handled /\ KeyInPrefix /\ ev.key = Ch("n")
    /\ Len(windows) = 3
    /\ pre.active_idx = 2 /\ active_idx = 0

\* Keys forward_key_to_active has bytes for.
ForwardedKeys == { Ch("a"), Ch("q"), Named("Enter"), Named("Left") }

\* What one forwarded key adds to the bytes written: its bytes, to child.
Written(child, key) == [child |-> child, bytes |-> KeyBytes(key)]

\* C18: a key handled in Passthrough mode that is neither the prefix nor
\* the hard-quit chord leaves the mode Passthrough and the model unchanged,
\* and what is written is the key's bytes, once, to the master of the active
\* pane of the active window (nothing when the key has no bytes); the
\* writes of two forwarded keys in a row are in the order of the keys.
C18_PassthroughForwards ==
    /\ (ev.kind = "key" /\ pre.mode = Passthrough
          /\ ~is_ctrl_b(ev.key) /\ ~IsHardQuit(ev.key))
         => /\ pc = "reap" /\ mode = Passthrough /\ ModelUnchanged
            /\ wrote = IF KeyBytes(ev.key) = <<>> THEN <<>>
                       ELSE << Written(PreWin.panes[PreWin.active_pane + 1].child,
                                       ev.key) >>
    /\ (pc = "poll" /\ mode = Passthrough /\ InBounds(AppSt))
         => \A k1 \in ForwardedKeys, k2 \in ForwardedKeys :
               LET s == RunKeys(AppSt, << k1, k2 >>)
                   c == CurWin.panes[CurWin.active_pane + 1].child
               IN  /\ s.ret = "ok" /\ s.mode = Passthrough
                   /\ s.wrote = wrote \o << Written(c, k1), Written(c, k2) >>

\* C18's case: the Left key was forwarded to the second, active pane of a
\* window of two panes.
C18_Witness ==
    /\ Handled /\ pre.mode = Passthrough /\ ev.key = Named("Left")
    /\ Len(CurWin.panes) = 2 /\ CurWin.active_pane = 1
    /\ wrote = << [child |-> CurWin.panes[2].child, bytes |-> << 27, 91, 68 >>] >>

\* C17: when RMUX_ACTIVE is "1" as main starts, main writes the refusal and
\* returns Ok with RMUX_ACTIVE, the host terminal and the PTY host
\* untouched, and does nothing after that; otherwise RMUX_ACTIVE is "1"
\* before raw mode is asked for, and it is "1" whenever raw mode is on, the
\* alternate screen is entered or a child has been spawned.
C17_NestedSessionRefused ==
    [][/\ (pc = "main" /\ env_active = "1")
          => /\ refused' /\ result' = "ok" /\ pc' = "done"
             /\ env_active' = "1"
             /\ ~raw_mode' /\ ~alt_screen' /\ next_child' = 1 /\ windows' = <<>>
       /\ (pc = "main" /\ env_active # "1")
          => /\ env_active' = "1" /\ ~refused' /\ ~raw_mode' /\ pc' = "raw"
       /\ ~refused
       /\ (raw_mode' \/ alt_screen' \/ next_child' > 1)
          => (env_active' = "1" /\ ~refused')
       /\ pc # "main" => env_active' = env_active
      ]_vars

\* C17's case: main has refused to start inside a session.
C17_Witness ==
    /\ refused /\ pc = "done" /\ result = "ok"
    /\ env_active = "1" /\ ~raw_mode /\ ~alt_screen /\ next_child = 1

\* C16: a render that lays out the area, the active window, the panes and
\* the layout that the render before it laid out calls master.resize and
\* set_size for no pane and leaves every pane as it was, whatever events
\* were handled between the two.
C16_SecondRenderResizesNothing ==
    [][(RenderStep /\ frame = FrameNow)
          => /\ ResizeCalls(windows[active_idx + 1], host) = 0
             /\ windows' = windows]_vars

\* C16's case: a window of two panes, rendered, is about to be rendered
\* again with the same area, panes and layout, and no pane of it is off its
\* target.
C16_Witness ==
    /\ pc = "render" /\ frame = FrameNow
    /\ Len(frame.panes) = 2 /\ frame.layout = "Vertical"
    /\ ResizeCalls(windows[active_idx + 1], host) = 0

\* The supervisor thread is in a call on a pane's PTY master.
SupInPtyCall == sup.at \in { "resize", "event_resize", "write" }

\* The supervisor thread is asking for the Mutex of the pane it is at.
SupAsksLock == sup.at \in { "lock_set_size", "lock_sample", "lock_event" }

\* C19: a reader thread holds its pane's Screen mutex only while it feeds
\* the chunk it has read to the parser, not in read, in sleep or after its
\* loop; the supervisor holds a Screen mutex only while it sets the size or
\* reads the cells of the pane it is at, holds none while it is in a call on
\* a PTY master, and never asks for a mutex it holds.
C19_NoLockAcrossPtyIo ==
    /\ \A p \in ThreadPanes :
          /\ term_lock[p] = "reader" <=> reader_at[p] = "process"
          /\ term_lock[p] = "supervisor"
                => /\ sup.pane = p
                   /\ sup.at \in { "set_size", "sample", "event_set_size" }
    /\ SupInPtyCall => \A p \in ThreadPanes : term_lock[p] # "supervisor"
    /\ SupAsksLock => term_lock[sup.pane] # "supervisor"

\* C19's case: the supervisor reads the cells of a pane under its mutex
\* while that pane's reader waits for the mutex with a chunk it has read,
\* and the reader of the other pane is in read.
C19_Witness ==
    /\ sup = [at |-> "sample", pane |-> 1]
    /\ term_lock[1] = "supervisor"
    /\ reader_at[1] = "lock"
    /\ reader_at[2] = "read" /\ term_lock[2] = "free"

\* C20 (as claimed): once a pane's child has exited and its master is
\* unreadable, whether read reports it by an error or by zero-byte reads,
\* the pane's reader thread terminates in the end.
C20_ReadersTerminate ==
    \A p \in ThreadPanes :
        (master_end[p] # "open") ~> (reader_at[p] = "done")

\* The child of the active pane of the active window.
ActiveChild(ws, aidx) == ws[aidx + 1].panes[ws[aidx + 1].active_pane + 1].child

\* C21 (as claimed): when reap_children runs and the child of the active
\* pane of the active window has not exited, active_idx and active_pane
\* designate the pane of that same child afterwards.
C21_ReapKeepsFocus ==
    [][(pc = "reap" /\ InBounds(AppSt)
          /\ ActiveWin(AppSt).active_pane < Len(ActiveWin(AppSt).panes)
          /\ ActiveChild(windows, active_idx) \notin exited)
         => /\ active_idx' < Len(windows')
            /\ ActiveChild(windows', active_idx') = ActiveChild(windows, active_idx)
      ]_vars

\* C22: whenever the loop is about to render or to poll for an event, the
\* model holds a window, every window holds a pane, and active_idx and
\* every active_pane are in range; handling a resize event there leaves the
\* active window's panes and active_pane in place; and no access in the
\* render or in a handler is ever out of bounds.
C22_NoIndexOutOfBounds ==
    /\ pc # "panicked"
    /\ pc \in { "render", "poll" }
         => /\ Len(windows) >= 1
            /\ active_idx < Len(windows)
            /\ \A i \in 1..Len(windows) :
                  /\ Len(windows[i].panes) >= 1
                  /\ windows[i].active_pane < Len(windows[i].panes)
            /\ \A size \in HostSizes :
                  LET w == ResizeActivePane(CurWin, size[1], size[2])
                  IN  /\ Children(w.panes) = Children(CurWin.panes)
                      /\ w.active_pane = CurWin.active_pane
    /\ pc = "poll"
         => \A key \in Keys : handle_key(AppSt, key, "ok").ret # "panic"

\* C22's case: the loop is back at the render after reaping removed the
\* window that was active and last, and active_idx was clamped into range.
C22_Witness ==
    /\ pc = "render"
    /\ Len(frame.panes) >= 1
    /\ frame.active_idx >= Len(windows)
    /\ active_idx = Len(windows) - 1

====
